---- MODULE Spec2Model ----
(***************************************************************************)
(* polyrhythmix: the drum-pattern notation, its duration model and the     *)
(* polyrhythm convergence computation.                                     *)
(*                                                                         *)
(*   src/src/dsl/dsl.rs    BasicLength, ModdedLength, Length, Group, the   *)
(*                         Add operator and the nom parser                 *)
(*   src/src/midi/time.rs  TimeSignature, converges, lowest_common_divisor *)
(*   src/src/bin/main.rs   validate_and_parse_part                         *)
(*                                                                         *)
(* Every function of the crate is pure; each specification below draws the *)
(* inputs of one component in Init (or builds them by actions) and applies *)
(* the component's functions by actions.                                   *)
(***************************************************************************)
EXTENDS Integers, Sequences, FiniteSets, TLC

VARIABLES
    lhs, rhs, added,          \* BasicLength + BasicLength and its result
    modded, measured,         \* a ModdedLength and the ticks of its triplet
    input, parsed,            \* a pattern text and what groups() made of it
    signature, multiple,      \* the receiver and the argument of converges
    result, previous,         \* the last and the last-but-one outcome of converges
    overflow_checks,          \* build profile: TRUE = debug (overflow panics), FALSE = release (wraps)
    tree, tree_ticks,         \* a Group built through its public fields, and its to_128th
    this, other, ordering,    \* two TimeSignatures and the result of this.cmp(&other)
    arg_a, arg_b, lcm, pc     \* lowest_common_divisor: its arguments, its local lcm, where it is

vars == <<lhs, rhs, added, modded, measured, input, parsed, signature, multiple,
          result, previous, overflow_checks, tree, tree_ticks,
          this, other, ordering, arg_a, arg_b, lcm, pc>>

(***************************************************************************)
(* Integer widths.  The model checker's integers end at 2^31 - 1, below    *)
(* u32::MAX, so a u32 is carried as a natural number in limbs: the         *)
(* sequence of its base-65536 digits, lowest first, without leading zero   *)
(* digits (0 is <<>>, 128 is <<128>>, 2^16 is <<0, 1>>).  A u32 has at     *)
(* most two limbs; a natural number with more has left the type.           *)
(***************************************************************************)
I32Max == 2147483647
U16Max == 65535
Base == 256 * 256

Max(a, b) == IF a >= b THEN a ELSE b
Min(a, b) == IF a <= b THEN a ELSE b

\* the limbs of the integer n >= 0
RECURSIVE Limbs(_)
Limbs(n) == IF n = 0 THEN <<>> ELSE <<n % Base>> \o Limbs(n \div Base)

\* without leading zero digits
RECURSIVE Trim(_)
Trim(x) ==
    IF x # <<>> /\ x[Len(x)] = 0 THEN Trim(SubSeq(x, 1, Len(x) - 1)) ELSE x

Limb(x, i) == IF i <= Len(x) THEN x[i] ELSE 0

\* x + y + carry, exact
RECURSIVE NatAddFrom(_, _, _, _)
NatAddFrom(x, y, i, carry) ==
    IF i > Len(x) /\ i > Len(y)
    THEN (IF carry = 0 THEN <<>> ELSE <<carry>>)
    ELSE LET d == Limb(x, i) + Limb(y, i) + carry
         IN  <<d % Base>> \o NatAddFrom(x, y, i + 1, d \div Base)

NatAdd(x, y) == Trim(NatAddFrom(x, y, 1, 0))

\* x * s for 0 <= s <= 256, exact
RECURSIVE NatMulByteFrom(_, _, _, _)
NatMulByteFrom(x, s, i, carry) ==
    IF i > Len(x)
    THEN (IF carry = 0 THEN <<>> ELSE <<carry>>)
    ELSE LET d == x[i] * s + carry
         IN  <<d % Base>> \o NatMulByteFrom(x, s, i + 1, d \div Base)

NatMulByte(x, s) == Trim(NatMulByteFrom(x, s, 1, 0))

\* x * t for 0 <= t < 2^16, exact: x * (t / 256) * 256 + x * (t % 256)
NatMul(x, t) ==
    NatAdd(NatMulByte(NatMulByte(x, t \div 256), 256), NatMulByte(x, t % 256))

\* x < y
RECURSIVE NatLessFrom(_, _, _)
NatLessFrom(x, y, i) ==
    IF i = 0 THEN FALSE
    ELSE IF x[i] # y[i] THEN x[i] < y[i]
    ELSE NatLessFrom(x, y, i - 1)

NatLess(x, y) ==
    IF Len(x) # Len(y) THEN Len(x) < Len(y) ELSE NatLessFrom(x, y, Len(x))

\* whether x is an integer of the model checker, and that integer
IsInt(x) == Len(x) <= 1 \/ (Len(x) = 2 /\ x[2] < Base \div 2)
IntOf(x) == Limb(x, 1) + Limb(x, 2) * Base

\* (a + b) % m and (a * b) % m for 0 <= a, b < m, without leaving the integers
AddMod(a, b, m) == IF a >= m - b THEN a - (m - b) ELSE a + b

RECURSIVE MulMod(_, _, _)
MulMod(a, b, m) ==
    IF a = 0 \/ b = 0 THEN 0
    ELSE IF a <= I32Max \div b THEN (a * b) % m
    ELSE LET h == MulMod(a, b \div 2, m)
             d == AddMod(h, h, m)
         IN  IF b % 2 = 1 THEN AddMod(d, a, m) ELSE d

\* x % m for an integer m >= 1: Horner over the limbs, highest first
RECURSIVE NatModFrom(_, _, _)
NatModFrom(x, m, i) ==
    IF i > Len(x) THEN 0
    ELSE AddMod(MulMod(NatModFrom(x, m, i + 1), Base % m, m), x[i] % m, m)

NatMod(x, m) == IF m = Base THEN Limb(x, 1) ELSE NatModFrom(x, m, 1)

\* x / d for an integer 1 <= d < 2^15: long division, highest limb first;
\* the pair <<quotient limbs, remainder>>
RECURSIVE NatDivFrom(_, _, _)
NatDivFrom(x, d, i) ==
    IF i > Len(x) THEN <<(<<>>), 0>>
    ELSE LET up == NatDivFrom(x, d, i + 1)
             n == up[2] * Base + x[i]
         IN  <<(<<n \div d>> \o up[1]), n % d>>

NatDiv(x, d) == Trim(NatDivFrom(x, d, 1)[1])

\* u32::MAX / m for an integer m >= 1, from u32::MAX = 2 * (2^31 - 1) + 1
U32MaxDiv(m) ==
    LET q == I32Max \div m
        r == I32Max % m
    IN  IF q > I32Max \div 2 THEN I32Max
        ELSE 2 * q + (IF r >= m - r - 1 THEN 1 ELSE 0)

\* A u32 computation that panicked instead of producing a value.
Panicked == <<0 - 1>>

\* the exact result x as a u32: it fits, or the operation overflowed, which
\* panics with overflow checks and keeps the low 32 bits without
IntoU32(x) ==
    IF Len(x) <= 2 THEN x
    ELSE IF overflow_checks THEN Panicked
    ELSE Trim(SubSeq(x, 1, 2))

\* x + y on u32
AddU32(x, y) ==
    IF x = Panicked \/ y = Panicked THEN Panicked ELSE IntoU32(NatAdd(x, y))

\* x * (t as u32) on u32, t a u16
MulU32(x, t) ==
    IF x = Panicked THEN Panicked ELSE IntoU32(NatMul(x, t))

(***************************************************************************)
(* Duration model (dsl.rs)                                                 *)
(***************************************************************************)
\* enum BasicLength, in declaration order.
BasicLengths == <<"Whole", "Half", "Fourth", "Eighth", "Sixteenth", "ThirtySecond", "SixtyFourth">>
BasicLength == {BasicLengths[i] : i \in 1..Len(BasicLengths)}

\* impl KnownLength for BasicLength
BasicLength_to_128th(bl) ==
    CASE bl = "Whole" -> 128
      [] bl = "Half" -> 64
      [] bl = "Fourth" -> 32
      [] bl = "Eighth" -> 16
      [] bl = "Sixteenth" -> 8
      [] bl = "ThirtySecond" -> 4
      [] bl = "SixtyFourth" -> 2

\* Result<BasicLength, String>
Ok(v) == [ok |-> TRUE, v |-> v]
Err(e) == [ok |-> FALSE, v |-> e]

\* BasicLength::from_num
from_num(n) ==
    CASE n = 1 -> Ok("SixtyFourth")
      [] n = 2 -> Ok("ThirtySecond")
      [] n = 4 -> Ok("Sixteenth")
      [] n = 8 -> Ok("Eighth")
      [] n = 16 -> Ok("Fourth")
      [] n = 32 -> Ok("Half")
      [] n = 64 -> Ok("Whole")
      [] OTHER -> Err("not a num BasicLength can be constructed from")

\* enum ModdedLength
Plain(bl) == [mod |-> "Plain", bl |-> bl]
Dotted(bl) == [mod |-> "Dotted", bl |-> bl]
ModdedLength == {Plain(bl) : bl \in BasicLength} \cup {Dotted(bl) : bl \in BasicLength}

\* enum Length; LengthPanic stands for a call that panicked in unwrap().
Simple(ml) == [kind |-> "Simple", a |-> ml]
Tied(ml1, ml2) == [kind |-> "Tied", a |-> ml1, b |-> ml2]
Triplet(ml) == [kind |-> "Triplet", a |-> ml]
LengthPanic == [kind |-> "Panic"]

\* Tied(Plain(x), Plain(from_num(n).unwrap()))
TiedWithRemainder(x, n) ==
    LET r == from_num(n)
    IN  IF r.ok THEN Tied(Plain(x), Plain(r.v)) ELSE LengthPanic

\* the closure f of add: a BasicLength in 64ths of a whole note
HalfTicks(x) ==
    CASE x = "Whole" -> 64
      [] x = "Half" -> 32
      [] x = "Fourth" -> 16
      [] x = "Eighth" -> 8
      [] x = "Sixteenth" -> 4
      [] x = "ThirtySecond" -> 2
      [] x = "SixtyFourth" -> 1

add_Branches(self, rhs_) ==
    LET total == HalfTicks(self) + HalfTicks(rhs_)
    IN  IF total > 64 THEN TiedWithRemainder("Whole", total - 64)
        ELSE IF total > 32 THEN TiedWithRemainder("Half", total - 32)
        ELSE IF total > 16 THEN TiedWithRemainder("Fourth", total - 16)
        ELSE IF total > 8 THEN TiedWithRemainder("Eighth", total - 8)
        ELSE IF total > 4 THEN TiedWithRemainder("Fourth", total - 4)
        ELSE TiedWithRemainder("Half", total - 2)

add_DoublesWhole(self, rhs_) ==
    IF self = rhs_
    THEN LET r == from_num(HalfTicks(self) * 2)
         IN  IF r.ok THEN Simple(Plain(r.v)) ELSE LengthPanic
    ELSE add_Branches(self, rhs_)

\* impl Add<BasicLength> for BasicLength
add(self, rhs_) ==
    IF self = rhs_ /\ self # "Whole"
    THEN LET r == from_num(HalfTicks(self) * 2)
         IN  IF r.ok THEN Simple(Plain(r.v)) ELSE LengthPanic
    ELSE add_Branches(self, rhs_)

\* impl KnownLength for ModdedLength
ModdedLength_to_128th(ml) ==
    IF ml.mod = "Plain" THEN BasicLength_to_128th(ml.bl)
    ELSE LET l == BasicLength_to_128th(ml.bl) IN l + l \div 2

Length_to_128th_DivFirst(len) ==
    CASE len.kind = "Simple" -> ModdedLength_to_128th(len.a)
      [] len.kind = "Tied" -> ModdedLength_to_128th(len.a) + ModdedLength_to_128th(len.b)
      [] len.kind = "Triplet" -> (ModdedLength_to_128th(len.a) \div 3) * 2

\* impl KnownLength for Length
Length_to_128th(len) ==
    CASE len.kind = "Simple" -> ModdedLength_to_128th(len.a)
      [] len.kind = "Tied" -> ModdedLength_to_128th(len.a) + ModdedLength_to_128th(len.b)
      [] len.kind = "Triplet" -> (ModdedLength_to_128th(len.a) * 2) \div 3

(***************************************************************************)
(* Pattern tree (dsl.rs) and time signature (time.rs)                      *)
(***************************************************************************)
\* enum GroupOrNote
SingleNote(n) == [kind |-> "SingleNote", note |-> n]
SingleGroup(g) == [kind |-> "SingleGroup", group |-> g]

\* struct Group { notes, length, times: Times(u16) }
Group(notes, len, t) == [kind |-> "Group", notes |-> notes, length |-> len, times |-> t]

HIT == SingleNote("Hit")
REST == SingleNote("Rest")

\* impl KnownLength for Group: acc starts at 0, every child adds to it (u32),
\* and the sum is multiplied by times (u32).
RECURSIVE Group_to_128th(_)
Group_to_128th(g) ==
    LET note_length == Length_to_128th(g.length)
        RECURSIVE acc(_)
        acc(i) ==
            IF i = 0 THEN Limbs(0)
            ELSE IF g.notes[i].kind = "SingleGroup"
                 THEN AddU32(acc(i - 1), Group_to_128th(g.notes[i].group))
                 ELSE AddU32(acc(i - 1), Limbs(note_length))
    IN  MulU32(acc(Len(g.notes)), g.times)

\* struct TimeSignature { numerator: u8, denominator: BasicLength }
TimeSignature(n, d) == [kind |-> "TimeSignature", numerator |-> n, denominator |-> d]

\* impl KnownLength for TimeSignature (at most 128 * 255: no overflow)
TimeSignature_to_128th(ts) == BasicLength_to_128th(ts.denominator) * ts.numerator

\* Ord for the integers
Ordering(x, y) == IF x < y THEN "Less" ELSE IF x = y THEN "Equal" ELSE "Greater"

\* #[derive(Ord)] on enum BasicLength: the order of the discriminants, which
\* number the variants from 0 in the order of their declaration
discriminant(bl) == (CHOOSE i \in 1..Len(BasicLengths) : BasicLengths[i] = bl) - 1
BasicLength_cmp(x, y) == Ordering(discriminant(x), discriminant(y))

cmp_ByTicks(self, other_) ==
    Ordering(TimeSignature_to_128th(self), TimeSignature_to_128th(other_))

\* #[derive(Ord)] on struct TimeSignature: the fields are compared in the
\* order of their declaration, and the first that is not Equal decides
cmp(self, other_) ==
    LET by_numerator == Ordering(self.numerator, other_.numerator)
    IN  IF by_numerator # "Equal" THEN by_numerator
        ELSE BasicLength_cmp(self.denominator, other_.denominator)

\* t.to_128th() for the element type T: KnownLength of converges, a u32
to_128th(t) ==
    IF t.kind = "Group" THEN Group_to_128th(t) ELSE Limbs(TimeSignature_to_128th(t))

(***************************************************************************)
(* Convergence (time.rs)                                                   *)
(***************************************************************************)
\* The search of lowest_common_divisor from lcm = mx = max(a, b) > 0 with
\* mn = min(a, b) > 0: lcm is incremented while lcm % a != 0 || lcm % b != 0.
\* The loop can leave only at a multiple of mx, every other candidate fails
\* one of the two tests, so the candidates that matter are k * mx; k = mn
\* passes, hence k <= mn.  A candidate beyond u32::MAX is never reached:
\* lcm += 1 overflows at u32::MAX first, which panics with overflow checks
\* and wraps to 0 without, where 0 % a = 0 and 0 % b = 0 end the loop.
Search(mx, mn) ==
    LET last == IF IsInt(mx) THEN Min(U32MaxDiv(IntOf(mx)), IF IsInt(mn) THEN IntOf(mn) ELSE I32Max)
                ELSE 1
        step == IF IsInt(mn) THEN NatMod(mx, IntOf(mn)) ELSE (IF mx = mn THEN 0 ELSE 1)
        ks == {k \in 1..last : IF IsInt(mn) THEN MulMod(k % IntOf(mn), step, IntOf(mn)) = 0
                                             ELSE step = 0}
    IN  IF ks # {} THEN NatMul(mx, CHOOSE k \in ks : \A j \in ks : k <= j)
        ELSE IF overflow_checks THEN Panicked
        ELSE Limbs(0)

\* fn lowest_common_divisor(a, b).  With a = 0 or b = 0 the first remainder
\* by zero that is evaluated panics: lcm % a at once when a = 0; when only
\* b = 0, lcm = a passes the first test and lcm % b is evaluated.
lowest_common_divisor(a, b) ==
    IF a = Panicked \/ b = Panicked THEN Panicked
    ELSE IF a = Limbs(0) \/ b = Limbs(0) THEN Panicked
    ELSE IF NatLess(a, b) THEN Search(b, a) ELSE Search(a, b)

\* multiple.iter().fold(bar_len, |acc, t| lowest_common_divisor(t.to_128th(), acc))
RECURSIVE fold(_, _, _)
fold(init, seq, i) ==
    IF i = 0 THEN init
    ELSE lowest_common_divisor(to_128th(seq[i]), fold(init, seq, i - 1))

\* Result<u32, String> of converges, or the panic that ended the call
ConvOk(n) == [tag |-> "Ok", bars |-> n]
ConvErr == [tag |-> "Err"]
ConvPanic == [tag |-> "Panic"]
NotRun == [tag |-> "NotRun"]

limit == 1000

\* result / bar_len, which panics when bar_len = 0; bar_len >= 2 otherwise,
\* so that the quotient is an integer of the model checker
BarsOf(folded, bar_len) == IntOf(NatDiv(folded, bar_len))

converges_LimitInclusive(self, mult) ==
    LET bar_len == TimeSignature_to_128th(self)
        folded == fold(Limbs(bar_len), mult, Len(mult))
    IN  IF folded = Panicked \/ bar_len = 0 THEN ConvPanic
        ELSE LET out == BarsOf(folded, bar_len)
             IN  IF limit >= out THEN ConvOk(out) ELSE ConvErr

\* TimeSignature::converges
converges(self, mult) ==
    LET bar_len == TimeSignature_to_128th(self)
        folded == fold(Limbs(bar_len), mult, Len(mult))
    IN  IF folded = Panicked \/ bar_len = 0 THEN ConvPanic
        ELSE LET out == BarsOf(folded, bar_len)
             IN  IF limit > out THEN ConvOk(out) ELSE ConvErr

(***************************************************************************)
(* Parser (dsl.rs): nom combinators over a text, a sequence of characters. *)
(* IResult: POk(rest, v) is Ok((rest, v)), PErr is Err(Err::Error(..)).    *)
(***************************************************************************)
POk(rest_, v) == [ok |-> TRUE, rest |-> rest_, v |-> v]
PErr == [ok |-> FALSE]

\* sequencing (tuple, separated_pair, delimited): the next parser runs on
\* what r left, an error of r is the error of the whole
Then(r, next(_)) == IF r.ok THEN next(r) ELSE PErr

\* nom::combinator::map
Map(r, f(_)) == IF r.ok THEN POk(r.rest, f(r.v)) ELSE PErr

\* nom::branch::alt of two parsers on one input: the second is tried when
\* the first fails
Alt(first, second) == IF first.ok THEN first ELSE second

\* nom::character::complete::char
char(c, in) ==
    IF in # <<>> /\ Head(in) = c THEN POk(Tail(in), c) ELSE PErr

Digits == {"0", "1", "2", "3", "4", "5", "6", "7", "8", "9"}

DigitValue(c) ==
    CASE c = "0" -> 0 [] c = "1" -> 1 [] c = "2" -> 2 [] c = "3" -> 3 [] c = "4" -> 4
      [] c = "5" -> 5 [] c = "6" -> 6 [] c = "7" -> 7 [] c = "8" -> 8 [] c = "9" -> 9

\* the number of leading ASCII digits
RECURSIVE DigitPrefix(_)
DigitPrefix(in) ==
    IF in # <<>> /\ Head(in) \in Digits THEN 1 + DigitPrefix(Tail(in)) ELSE 0

SplitAt(in, n) == IF n = 0 THEN PErr ELSE POk(SubSeq(in, n + 1, Len(in)), SubSeq(in, 1, n))

\* nom::character::complete::digit1: one or more digits
digit1(in) == SplitAt(in, DigitPrefix(in))

\* what str::parse reads from a run of digits (leading zeros allowed) into
\* an integer type whose largest value is maxv: the value, or TooLarge
TooLarge == 0 - 1

NextDigit(p, d, maxv) ==
    IF p = TooLarge \/ p > (maxv - d) \div 10 THEN TooLarge ELSE p * 10 + d

RECURSIVE Decimal(_, _)
Decimal(ds, maxv) ==
    IF ds = <<>> THEN 0
    ELSE NextDigit(Decimal(SubSeq(ds, 1, Len(ds) - 1), maxv), DigitValue(ds[Len(ds)]), maxv)

Parsed(r, n) == IF n = TooLarge THEN PErr ELSE POk(r.rest, n)

\* map_res(digit1, str::parse): a number that does not fit the type is an
\* error of the parser
map_res_digit1_parse(in, maxv) ==
    Then(digit1(in), LAMBDA d : Parsed(d, Decimal(d.v, maxv)))

hit(in) == Map(char("x", in), LAMBDA c : "Hit")

rest(in) == Map(char("-", in), LAMBDA c : "Rest")

note(in) == Alt(hit(in), rest(in))

\* the arms of the match of length_basic
BasicOf(r) ==
    CASE r.v = 1 -> POk(r.rest, "Whole")
      [] r.v = 2 -> POk(r.rest, "Half")
      [] r.v = 4 -> POk(r.rest, "Fourth")
      [] r.v = 8 -> POk(r.rest, "Eighth")
      [] r.v = 16 -> POk(r.rest, "Sixteenth")
      [] r.v = 32 -> POk(r.rest, "ThirtySecond")
      [] r.v = 64 -> POk(r.rest, "SixtyFourth")
      [] OTHER -> PErr

\* the literals of the match make str::parse read an i32
length_basic(in) == Then(map_res_digit1_parse(in, I32Max), LAMBDA r : BasicOf(r))

dotted_length(in) ==
    Then(length_basic(in), LAMBDA l : Map(char(".", l.rest), LAMBDA c : Dotted(l.v)))

modded_length(in) ==
    Alt(dotted_length(in), Map(length_basic(in), LAMBDA x : Plain(x)))

triplet_length(in) ==
    Then(modded_length(in), LAMBDA l : Map(char("t", l.rest), LAMBDA c : Triplet(l.v)))

tied_length(in) ==
    Then(modded_length(in), LAMBDA x :
        Then(char("+", x.rest), LAMBDA c :
            Map(modded_length(c.rest), LAMBDA y : Tied(x.v, y))))

length(in) ==
    Alt(triplet_length(in),
        Alt(tied_length(in), Map(modded_length(in), LAMBDA x : Simple(x))))

\* Times(u16)
times(in) == map_res_digit1_parse(in, U16Max)

\* many1(note): the first note must parse, the following ones are taken
\* until note fails
RECURSIVE many_note(_, _)
many_note(r, acc) ==
    IF r.ok THEN many_note(note(r.rest), Append(acc, r.v)) ELSE acc

NotesFrom(in, first) ==
    LET acc == many_note(first, <<>>)
    IN  IF first.ok THEN POk(SubSeq(in, Len(acc) + 1, Len(in)), acc) ELSE PErr

many1_note(in) == NotesFrom(in, note(in))

\* the alternative `repeated` of group: (t, l, n)
repeated(in) ==
    Then(times(in), LAMBDA t :
        Then(char(",", t.rest), LAMBDA c :
            Then(length(c.rest), LAMBDA l :
                Map(many1_note(l.rest), LAMBDA n : <<t.v, l.v, n>>))))

\* the alternative `single` of group: (Times(1), l, vn)
single(in) ==
    Then(length(in), LAMBDA l : Map(many1_note(l.rest), LAMBDA vn : <<1, l.v, vn>>))

\* Group { notes: n.iter().map(SingleNote).collect(), length: l, times: t }
GroupOf(tln) ==
    Group([i \in 1..Len(tln[3]) |-> SingleNote(tln[3][i])], tln[2], tln[1])

group(in) == Map(Alt(repeated(in), single(in)), LAMBDA tln : GroupOf(tln))

delimited_group_Unclosed(in) ==
    Then(char("(", in), LAMBDA o : group(o.rest))

delimited_group(in) ==
    Then(char("(", in), LAMBDA o :
        Then(group(o.rest), LAMBDA g :
            Map(char(")", g.rest), LAMBDA c : g.v)))

group_or_delimited_group(in) == Alt(delimited_group(in), group(in))

\* many1(group_or_delimited_group): the groups taken so far and the text left
RECURSIVE many_group(_, _, _)
many_group(r, in, acc) ==
    IF r.ok THEN many_group(group_or_delimited_group(r.rest), r.rest, Append(acc, r.v))
    ELSE IF acc = <<>> THEN PErr
    ELSE POk(in, acc)

groups(in) == many_group(group_or_delimited_group(in), in, <<>>)

(***************************************************************************)
(* Bounds and inputs                                                       *)
(***************************************************************************)
MaxLen == 4          \* characters of a pattern text
MaxPatterns == 2     \* entries of the list given to converges
MaxDepth == 2        \* nesting depth of a Group built by hand

\* the characters a pattern text is typed from: digits that spell permitted
\* lengths (1, 16), other numbers (0, 6, 61, ...), and every symbol of the notation
Alphabet == {"0", "1", "6", "x", "-", ".", "t", "+", ",", "(", ")"}

\* static Lengths of dsl.rs
FOURTH == Simple(Plain("Fourth"))
EIGHTH == Simple(Plain("Eighth"))
SIXTEENTH == Simple(Plain("Sixteenth"))
SIXTY_FOURTH == Simple(Plain("SixtyFourth"))
SIXTY_FOURTH_TRIPLET == Triplet(Plain("SixtyFourth"))

\* the values of test_converges
three_fourth == TimeSignature(3, "Fourth")
four_fourth == TimeSignature(4, "Fourth")
six_fourth == TimeSignature(6, "Fourth")
thirteen_eights == Group(<<HIT>>, FOURTH, 12)
in_shards_poly == Group(<<HIT, REST, SingleGroup(thirteen_eights)>>, EIGHTH, 1)

\* further Groups: 1998 and 2000 ticks (999 and 1000 bars of 1/64), no ticks
\* at all, and 2 * 513 * 65535 = 67238910 ticks, 64 times which is just
\* above u32::MAX
bars_999 == Group(<<HIT>>, SIXTY_FOURTH, 999)
bars_1000 == Group(<<HIT>>, SIXTY_FOURTH, 1000)
silent == Group(<<HIT, REST>>, SIXTEENTH, 0)
widest == Group(<<SingleGroup(Group(<<HIT>>, SIXTY_FOURTH, 513))>>, SIXTY_FOURTH, U16Max)

SignaturePool == {TimeSignature(n, d) : n \in {0, 1, 3, 4}, d \in {"Fourth", "SixtyFourth"}}
TimeSignaturePool == {three_fourth, four_fourth, six_fourth}
GroupPool == {in_shards_poly, bars_999, bars_1000, silent, widest}

TreeLengths == {FOURTH, EIGHTH, SIXTY_FOURTH_TRIPLET, Tied(Plain("Eighth"), Dotted("Sixteenth"))}
TreeTimes == {0, 1, 2, 12, U16Max}
NoteRuns == {<<HIT>>, <<HIT, REST>>, <<HIT, HIT>>}
Before == {<<>>, <<HIT, REST>>}
After == {<<>>, <<HIT, HIT>>}

(***************************************************************************)
(* State                                                                   *)
(***************************************************************************)
NotAdded == [kind |-> "NotAdded"]
NotMeasured == [done |-> FALSE]
Measured(n) == [done |-> TRUE, ticks |-> n]
NotParsed == [ok |-> FALSE, pending |-> TRUE]
NotCompared == "NotCompared"

DurationIdle ==
    /\ lhs = "Whole" /\ rhs = "Whole" /\ added = NotAdded
    /\ modded = Plain("Whole") /\ measured = NotMeasured
ParserIdle == input = <<>> /\ parsed = NotParsed
ConvergenceIdle ==
    /\ signature = four_fourth /\ multiple = <<>>
    /\ result = NotRun /\ previous = NotRun
TreeIdle == tree = thirteen_eights /\ tree_ticks = NotMeasured
OrderIdle == this = four_fourth /\ other = four_fourth /\ ordering = NotCompared
SearchIdle == arg_a = Limbs(1) /\ arg_b = Limbs(1) /\ lcm = Limbs(1) /\ pc = "idle"

durationVars == <<lhs, rhs, added, modded, measured>>
parserVars == <<input, parsed>>
convergenceVars == <<signature, multiple, result, previous>>
treeVars == <<tree, tree_ticks>>
orderVars == <<this, other, ordering>>
searchVars == <<arg_a, arg_b, lcm, pc>>

(***************************************************************************)
(* Duration model: a + b, and the ticks of a triplet                       *)
(***************************************************************************)
InitDuration ==
    /\ lhs \in BasicLength /\ rhs \in BasicLength /\ added = NotAdded
    /\ modded \in ModdedLength /\ measured = NotMeasured
    /\ overflow_checks \in BOOLEAN
    /\ ParserIdle /\ ConvergenceIdle /\ TreeIdle
    /\ OrderIdle /\ SearchIdle

\* lhs + rhs
AddLengths ==
    /\ added = NotAdded
    /\ added' = add(lhs, rhs)
    /\ UNCHANGED <<lhs, rhs, modded, measured, overflow_checks>>
    /\ UNCHANGED <<parserVars, convergenceVars, treeVars>>
    /\ UNCHANGED <<orderVars, searchVars>>

\* Length::Triplet(modded).to_128th()
MeasureTriplet ==
    /\ measured = NotMeasured
    /\ measured' = Measured(Length_to_128th(Triplet(modded)))
    /\ UNCHANGED <<lhs, rhs, added, modded, overflow_checks>>
    /\ UNCHANGED <<parserVars, convergenceVars, treeVars>>
    /\ UNCHANGED <<orderVars, searchVars>>

NextDuration == AddLengths \/ MeasureTriplet

SpecDuration == InitDuration /\ [][NextDuration]_vars

(***************************************************************************)
(* Pattern tree: a Group built through its public fields, then measured    *)
(***************************************************************************)
RECURSIVE Depth(_)
Depth(g) ==
    LET d(i) == IF g.notes[i].kind = "SingleGroup" THEN Depth(g.notes[i].group) ELSE 0
        RECURSIVE deepest(_)
        deepest(i) == IF i = 0 THEN 0 ELSE Max(d(i), deepest(i - 1))
    IN  1 + deepest(Len(g.notes))

InitTree ==
    /\ tree \in {Group(n, l, t) : n \in NoteRuns, l \in TreeLengths, t \in TreeTimes}
    /\ tree_ticks = NotMeasured
    /\ overflow_checks \in BOOLEAN
    /\ DurationIdle /\ ParserIdle /\ ConvergenceIdle
    /\ OrderIdle /\ SearchIdle

\* Group { notes: before ++ [SingleGroup(tree)] ++ after, length: l, times: Times(t) }
Nest(l, t, before, after) ==
    /\ tree_ticks = NotMeasured
    /\ Depth(tree) < MaxDepth
    /\ tree' = Group(before \o <<SingleGroup(tree)>> \o after, l, t)
    /\ UNCHANGED <<tree_ticks, overflow_checks>>
    /\ UNCHANGED <<durationVars, parserVars, convergenceVars>>
    /\ UNCHANGED <<orderVars, searchVars>>

\* tree.to_128th()
MeasureTree ==
    /\ tree_ticks = NotMeasured
    /\ tree_ticks' = Measured(Group_to_128th(tree))
    /\ UNCHANGED <<tree, overflow_checks>>
    /\ UNCHANGED <<durationVars, parserVars, convergenceVars>>
    /\ UNCHANGED <<orderVars, searchVars>>

NextTree ==
    \/ \E l \in TreeLengths, t \in TreeTimes, before \in Before, after \in After :
          Nest(l, t, before, after)
    \/ MeasureTree

SpecTree == InitTree /\ [][NextTree]_vars

(***************************************************************************)
(* Convergence: a list of TimeSignatures or of Groups against a signature  *)
(***************************************************************************)
InitConvergence ==
    /\ signature \in SignaturePool
    /\ multiple = <<>>
    /\ result = NotRun /\ previous = NotRun
    /\ overflow_checks \in BOOLEAN
    /\ DurationIdle /\ ParserIdle /\ TreeIdle
    /\ OrderIdle /\ SearchIdle

\* Vec<T> holds one type T: KnownLength
SameType(t, list) == IF list = <<>> THEN TRUE ELSE list[1].kind = t.kind

\* multiple.push(t) before the call
Push(t) ==
    /\ result = NotRun
    /\ Len(multiple) < MaxPatterns
    /\ SameType(t, multiple)
    /\ multiple' = Append(multiple, t)
    /\ UNCHANGED <<signature, result, previous, overflow_checks>>
    /\ UNCHANGED <<durationVars, parserVars, treeVars>>
    /\ UNCHANGED <<orderVars, searchVars>>

\* signature.converges(multiple)
Converge ==
    /\ result = NotRun
    /\ result' = converges(signature, multiple)
    /\ UNCHANGED <<signature, multiple, previous, overflow_checks>>
    /\ UNCHANGED <<durationVars, parserVars, treeVars>>
    /\ UNCHANGED <<orderVars, searchVars>>

\* the same call again with one more entry at the end of the list
ConvergeWithOneMore(t) ==
    /\ result # NotRun
    /\ Len(multiple) < MaxPatterns
    /\ SameType(t, multiple)
    /\ multiple' = Append(multiple, t)
    /\ previous' = result
    /\ result' = converges(signature, multiple')
    /\ UNCHANGED <<signature, overflow_checks>>
    /\ UNCHANGED <<durationVars, parserVars, treeVars>>
    /\ UNCHANGED <<orderVars, searchVars>>

NextConvergence ==
    \/ \E t \in TimeSignaturePool \cup GroupPool : Push(t)
    \/ Converge
    \/ \E t \in TimeSignaturePool \cup GroupPool : ConvergeWithOneMore(t)

Spec == InitConvergence /\ [][NextConvergence]_vars

(***************************************************************************)
(* Parser: a drum part typed on the command line, parsed by                *)
(* validate_and_parse_part, and given to converges                         *)
(***************************************************************************)
InitParser ==
    /\ input = <<>> /\ parsed = NotParsed
    /\ signature = four_fourth          \* the default of --time-signature
    /\ multiple = <<>>
    /\ result = NotRun /\ previous = NotRun
    /\ overflow_checks \in BOOLEAN
    /\ DurationIdle /\ TreeIdle
    /\ OrderIdle /\ SearchIdle

Type(c) ==
    /\ parsed = NotParsed
    /\ Len(input) < MaxLen
    /\ input' = Append(input, c)
    /\ UNCHANGED <<parsed, overflow_checks>>
    /\ UNCHANGED <<durationVars, convergenceVars, treeVars>>
    /\ UNCHANGED <<orderVars, searchVars>>

\* validate_and_parse_part: Ok((_, groups)) keeps the groups and drops the
\* rest of the text; Err(_) panics
ParsePart ==
    /\ parsed = NotParsed
    /\ parsed' = groups(input)
    /\ multiple' = IF parsed'.ok THEN parsed'.v ELSE multiple
    /\ UNCHANGED <<input, signature, result, previous, overflow_checks>>
    /\ UNCHANGED <<durationVars, treeVars>>
    /\ UNCHANGED <<orderVars, searchVars>>

\* signature.converges(groups) on the groups of the part
ConvergeParsed ==
    /\ parsed.ok
    /\ result = NotRun
    /\ result' = converges(signature, multiple)
    /\ UNCHANGED <<input, parsed, signature, multiple, previous, overflow_checks>>
    /\ UNCHANGED <<durationVars, treeVars>>
    /\ UNCHANGED <<orderVars, searchVars>>

NextParser ==
    \/ \E c \in Alphabet : Type(c)
    \/ ParsePart
    \/ ConvergeParsed

SpecParser == InitParser /\ [][NextParser]_vars

(***************************************************************************)
(* Ordering of time signatures: this.cmp(&other)                           *)
(***************************************************************************)
\* the values of test_cmp_time_signature
three_sixteenth == TimeSignature(3, "Sixteenth")
two_secondth == TimeSignature(2, "Half")

Numerators == {0, 2, 3, 4, 255}
OrderPool == {TimeSignature(n, d) : n \in Numerators, d \in BasicLength}

InitOrder ==
    /\ this \in OrderPool /\ other \in OrderPool /\ ordering = NotCompared
    /\ overflow_checks \in BOOLEAN
    /\ DurationIdle /\ ParserIdle /\ ConvergenceIdle /\ TreeIdle /\ SearchIdle

Compare ==
    /\ ordering = NotCompared
    /\ ordering' = cmp(this, other)
    /\ UNCHANGED <<this, other, overflow_checks>>
    /\ UNCHANGED <<durationVars, parserVars, convergenceVars, treeVars, searchVars>>

NextOrder == Compare

SpecOrder == InitOrder /\ [][NextOrder]_vars

(***************************************************************************)
(* The search of lowest_common_divisor, one evaluation of the loop         *)
(* condition at a time                                                     *)
(***************************************************************************)
U32_MAX == <<Base - 1, Base - 1>>

\* u32::max(x, y)
u32_max(x, y) == IF NatLess(x, y) THEN y ELSE x

\* x % m == 0 for u32 x and m > 0; with m >= 2^31, x < 2 * m
DivisibleBy(x, m) ==
    IF IsInt(m) THEN NatMod(x, IntOf(m)) = 0 ELSE x = m \/ x = Limbs(0)

\* the arguments of test_lcm, small ones, and the two largest u32
SearchPool ==
    {Limbs(0), Limbs(1), Limbs(2), Limbs(3), Limbs(96), Limbs(128),
     <<Base - 2, Base - 1>>, U32_MAX}

InitSearch ==
    /\ arg_a \in SearchPool /\ arg_b \in SearchPool
    /\ lcm = Limbs(0) /\ pc = "start"
    /\ overflow_checks \in BOOLEAN
    /\ DurationIdle /\ ParserIdle /\ ConvergenceIdle /\ TreeIdle /\ OrderIdle

\* let mut lcm = u32::max(a, b);
Start ==
    /\ pc = "start"
    /\ lcm' = u32_max(arg_a, arg_b)
    /\ pc' = "while"
    /\ UNCHANGED <<arg_a, arg_b, overflow_checks>>
    /\ UNCHANGED <<durationVars, parserVars, convergenceVars, treeVars, orderVars>>

\* lcm % a with a = 0, or lcm % a == 0 and then lcm % b with b = 0
RemainderByZero ==
    /\ pc = "while"
    /\ IF arg_a = Limbs(0) THEN TRUE
       ELSE DivisibleBy(lcm, arg_a) /\ arg_b = Limbs(0)
    /\ pc' = "panicked"
    /\ UNCHANGED <<arg_a, arg_b, lcm, overflow_checks>>
    /\ UNCHANGED <<durationVars, parserVars, convergenceVars, treeVars, orderVars>>

\* the condition lcm % a != 0 || lcm % b != 0 holds: lcm += 1
Increment ==
    /\ pc = "while"
    /\ arg_a # Limbs(0)
    /\ IF ~DivisibleBy(lcm, arg_a) THEN TRUE
       ELSE arg_b # Limbs(0) /\ ~DivisibleBy(lcm, arg_b)
    /\ LET next == AddU32(lcm, Limbs(1))
       IN  IF next = Panicked
           THEN pc' = "panicked" /\ lcm' = lcm
           ELSE pc' = "while" /\ lcm' = next
    /\ UNCHANGED <<arg_a, arg_b, overflow_checks>>
    /\ UNCHANGED <<durationVars, parserVars, convergenceVars, treeVars, orderVars>>

\* the condition fails: the function returns lcm
Return ==
    /\ pc = "while"
    /\ arg_a # Limbs(0) /\ arg_b # Limbs(0)
    /\ DivisibleBy(lcm, arg_a) /\ DivisibleBy(lcm, arg_b)
    /\ pc' = "returned"
    /\ UNCHANGED <<arg_a, arg_b, lcm, overflow_checks>>
    /\ UNCHANGED <<durationVars, parserVars, convergenceVars, treeVars, orderVars>>

NextSearch ==
    \/ Start
    \/ RemainderByZero
    \/ Increment
    \/ Return

SpecSearch == InitSearch /\ [][NextSearch]_vars

\* the function runs on: nothing but its own steps can stop it
SpecSearchFair == SpecSearch /\ WF_vars(NextSearch)

(***************************************************************************)
(* Properties                                                              *)
(***************************************************************************)
\* the ticks of the i-th entry of the list given to converges
TicksOf(i) == to_128th(multiple[i])

\* every entry of the list has a positive tick count
AllPositive ==
    \A i \in 1..Len(multiple) : TicksOf(i) # Panicked /\ TicksOf(i) # Limbs(0)

BarTicks == TimeSignature_to_128th(signature)

\* t divides the integer n > 0
DividesInt(t, n) == IF IsInt(t) THEN n % IntOf(t) = 0 ELSE FALSE

\* n bars of the signature are a whole number of repetitions of every entry
Aligned(n) == \A i \in 1..Len(multiple) : DividesInt(TicksOf(i), n * BarTicks)

\* n is the least positive number of bars that is
LeastAligned(n) == n >= 1 /\ Aligned(n) /\ \A m \in 1..(n - 1) : ~Aligned(m)

\* C1: whenever converges returns a bar count n for a signature with a
\* positive numerator and entries with positive tick counts, n is the least
\* positive integer for which n bars are a multiple of every entry's ticks.
C1_LeastCommonBars ==
    (result.tag = "Ok" /\ signature.numerator > 0 /\ AllPositive)
        => LeastAligned(result.bars)

\* the bar count that converges derived, when the call did not panic
Derived == BarsOf(fold(Limbs(BarTicks), multiple, Len(multiple)), BarTicks)

\* C2: converges applies the limit of 1000 to the bar count exactly: a bar
\* count below 1000 is returned (the least aligned one whenever one below
\* 1000 exists), "does not converge" is returned only when no bar count
\* below 1000 aligns and exactly when the derived count is 1000 or more, and
\* no bar count of 1000 or more is ever returned.
C2_LimitExact ==
    (result.tag \in {"Ok", "Err"} /\ signature.numerator > 0 /\ AllPositive) =>
        /\ result.tag = "Ok" => result.bars < limit /\ result.bars = Derived
        /\ result.tag = "Err" <=> Derived >= limit
        /\ result.tag = "Err" => \A n \in 1..(limit - 1) : ~Aligned(n)
        /\ \A n \in 1..(limit - 1) : LeastAligned(n) => result = ConvOk(n)

\* C2 witness: the call at the limit itself, 1000 bars of 1/64 (2000 ticks)
C2_AtTheLimit ==
    /\ result = ConvErr
    /\ signature.numerator > 0 /\ AllPositive
    /\ multiple = <<bars_1000>>
    /\ Derived = limit

\* C3: for a signature with a positive numerator and the Groups the parser
\* returned for a text, converges returns Ok(bars) or Err and never panics.
C3_NeverAborts ==
    (result # NotRun /\ parsed.ok /\ signature.numerator > 0)
        => result.tag \in {"Ok", "Err"}

\* C4: groups(text) succeeds only having consumed the whole text: a success
\* leaves no rest.
C4_NoPartialParse == parsed.ok => parsed.rest = <<>>

\* the BasicLength of n half-ticks, and the largest one below n half-ticks
OfHalfTicks(n) == {x \in BasicLength : HalfTicks(x) = n}
LargestBelow(n) ==
    {x \in BasicLength : HalfTicks(x) < n
        /\ \A y \in BasicLength : HalfTicks(y) < n => HalfTicks(y) <= HalfTicks(x)}

\* what the rule of the sum says a + b is when it is no doubling
TieOf(a, b) ==
    LET s == HalfTicks(a) + HalfTicks(b)
        X == IF s > 64 THEN {"Whole"} ELSE LargestBelow(s)
    IN  {Tied(Plain(x), Plain(r)) : x \in X, r \in UNION {OfHalfTicks(s - HalfTicks(x)) : x \in X}}

\* C5: outside the doubling case, a + b with half-tick sum s is
\* Tied(Plain(Whole), Plain(remainder)) when s > 64 and otherwise
\* Tied(Plain(X), Plain(remainder)) with X the largest BasicLength below s
\* and remainder the BasicLength of s minus X's half-ticks.
C5_TieOfLargest ==
    (added # NotAdded /\ ~(lhs = rhs /\ lhs # "Whole")) => added \in TieOf(lhs, rhs)

\* C6: a + b is total on the 49 pairs: every remainder it derives is one of
\* the seven values from_num accepts, so the unwrap never panics and the sum
\* is a Length made of BasicLengths.
C6_AddIsTotal ==
    added # NotAdded =>
        /\ added # LengthPanic
        /\ added.kind \in {"Simple", "Tied"}
        /\ added.a \in {Plain(x) : x \in BasicLength}
        /\ added.kind = "Tied" => added.b \in {Plain(x) : x \in BasicLength}

\* C6 witness: the last branch of add has run (3 half-ticks)
C6_SmallestTie ==
    /\ lhs = "ThirtySecond" /\ rhs = "SixtyFourth"
    /\ added.kind = "Tied"

\* the exact duration of a Group in the natural numbers: every note weighs
\* its own group's length times the repeat counts of all groups around it
RECURSIVE Weight(_, _)
Weight(g, around) ==
    LET here == NatMul(around, g.times)
        RECURSIVE sum(_)
        sum(i) ==
            IF i = 0 THEN Limbs(0)
            ELSE IF g.notes[i].kind = "SingleGroup"
                 THEN NatAdd(sum(i - 1), Weight(g.notes[i].group, here))
                 ELSE NatAdd(sum(i - 1), NatMul(here, Length_to_128th(g.length)))
    IN  sum(Len(g.notes))

\* C7: the ticks of a Group tree are its repeat count times the sum of its
\* children, a note counting the group's own length and a nested group its
\* own ticks (its repeat count included).
C7_RepeatedSumOfChildren ==
    tree_ticks.done => tree_ticks.ticks = Weight(tree, Limbs(1))

\* C8 as claimed: three triplet notes last exactly as long as two notes of
\* the base length.
C8_ThreeInTheTimeOfTwo ==
    measured.done => 3 * measured.ticks = 2 * ModdedLength_to_128th(modded)

\* C8 amended: the triplet is the floor of two thirds: three triplet notes
\* fall short of two base notes by at most 2 ticks, and by none exactly when
\* the base is dotted.
C8_TripletIsFloorOfTwoThirds ==
    measured.done =>
        LET short == 2 * ModdedLength_to_128th(modded) - 3 * measured.ticks
        IN  /\ short \in 0..2
            /\ short = 0 <=> modded.mod = "Dotted"

\* C8 witness: the triplet of a plain sixty-fourth, 1 tick for 2 * 2 / 3
C8_ShortTriplet ==
    /\ measured.done
    /\ modded = Plain("SixtyFourth")
    /\ measured.ticks = 1

Parenthesized(text) == <<"(">> \o text \o <<")">>

\* C9: when group parses the whole text into a Group, the text in
\* parentheses parses, with nothing left, into the same Group.
C9_ParenthesesTransparent ==
    (group(input).ok /\ group(input).rest = <<>>)
        => group_or_delimited_group(Parenthesized(input)) = group(input)

\* C9 witness: a part with a repeat count was parsed, bare, as one group
C9_RepeatedGroupParsed ==
    /\ parsed.ok /\ parsed.rest = <<>>
    /\ group(input).ok /\ group(input).rest = <<>>
    /\ parsed.v = <<group(input).v>>
    /\ parsed.v[1].times = 6
    /\ group_or_delimited_group(Parenthesized(input)).ok

\* the entry added last repeats the ticks of an earlier entry, or its ticks
\* equal or divide those of the reference bar
Redundant ==
    LET last == TicksOf(Len(multiple))
    IN  \/ \E i \in 1..(Len(multiple) - 1) : TicksOf(i) = last
        \/ DividesInt(last, BarTicks)

\* C10: adding an entry whose ticks are already in the list, or divide the
\* bar, leaves the outcome of converges unchanged.
C10_DuplicateInvariant ==
    (previous # NotRun /\ signature.numerator > 0 /\ AllPositive /\ Redundant)
        => result = previous

\* the rank the ordering gives a denominator
Rank(d) ==
    CASE d = "Whole" -> 0 [] d = "Half" -> 1 [] d = "Fourth" -> 2
      [] d = "Eighth" -> 3 [] d = "Sixteenth" -> 4 [] d = "ThirtySecond" -> 5
      [] d = "SixtyFourth" -> 6

\* the lexicographic order of the pairs (numerator, rank of the denominator)
Lexicographic(x, y) ==
    IF x.numerator < y.numerator THEN "Less"
    ELSE IF x.numerator > y.numerator THEN "Greater"
    ELSE IF Rank(x.denominator) < Rank(y.denominator) THEN "Less"
    ELSE IF Rank(x.denominator) > Rank(y.denominator) THEN "Greater"
    ELSE "Equal"

\* C11: this.cmp(&other) is the lexicographic order of the pairs (numerator,
\* declaration rank of the denominator): the numerators decide unless they
\* are equal, whatever the ticks of the two signatures are.
C11_LexicographicOrder ==
    ordering # NotCompared =>
        /\ ordering = Lexicographic(this, other)
        /\ this.numerator < other.numerator => ordering = "Less"
        /\ this.numerator > other.numerator => ordering = "Greater"

\* C11 witness: 4/4 against 2/2, the same 128 ticks, compared as Greater
C11_SameTicksGreater ==
    /\ this = four_fourth /\ other = two_secondth
    /\ TimeSignature_to_128th(this) = TimeSignature_to_128th(other)
    /\ ordering = "Greater"

RECURSIVE Gcd(_, _)
Gcd(p, q) == IF q = 0 THEN p ELSE Gcd(q, p % q)

\* x / m for m > 0 dividing x > 0 (an m of the integers is below 2^15)
Quotient(x, m) == IF IsInt(m) THEN NatDiv(x, IntOf(m)) ELSE Limbs(1)

\* gcd(p, q) = 1 for p, q >= 1; two numbers from 2^31 on are quotients of
\* the same u32 by 1, hence equal
Coprime(p, q) ==
    IF p = Limbs(1) \/ q = Limbs(1) THEN TRUE
    ELSE IF IsInt(p) /\ IsInt(q) THEN Gcd(IntOf(p), IntOf(q)) = 1
    ELSE IF IsInt(q) THEN Gcd(IntOf(q), NatMod(p, IntOf(q))) = 1
    ELSE IF IsInt(p) THEN Gcd(IntOf(p), NatMod(q, IntOf(p))) = 1
    ELSE FALSE

\* x = a * b / gcd(a, b): a common multiple whose two quotients are coprime
IsLcm(x, a, b) ==
    /\ x # Limbs(0)
    /\ DivisibleBy(x, a) /\ DivisibleBy(x, b)
    /\ Coprime(Quotient(x, a), Quotient(x, b))

\* the search is the function the fold of converges applies
SearchIsLowestCommonDivisor ==
    /\ pc = "returned" => lcm = lowest_common_divisor(arg_a, arg_b)
    /\ pc = "panicked" => lowest_common_divisor(arg_a, arg_b) = Panicked

\* with positive arguments the search stops (under SpecSearchFair)
SearchStops == <>(pc \in {"returned", "panicked"})

\* C12: for positive a and b the search never overflows (no panic, and no
\* wrap to 0) before it stops, and the value it returns is the least common
\* multiple a * b / gcd(a, b).
C12_SearchReturnsTrueLcm ==
    (pc \in {"while", "returned", "panicked"}
        /\ arg_a # Limbs(0) /\ arg_b # Limbs(0)) =>
        /\ pc # "panicked"
        /\ lcm # Limbs(0)
        /\ pc = "returned" => IsLcm(lcm, arg_a, arg_b)

====
